---- MODULE Spec2Model ----
(***************************************************************************)
(* Model of api/index.js: the CP voting API (Express + MongoDB).           *)
(* Every request handler is an async function: it runs synchronously      *)
(* from one await to the next, and the handlers of different requests      *)
(* interleave at their awaits. The store applies each call atomically.     *)
(***************************************************************************)
EXTENDS Integers, Sequences, FiniteSets, TLC

\* ---------------------------------------------------------------- bounds
NReq == 2            \* request slots (each serves one request)
MaxTime == 2         \* the clock runs 0..MaxTime
DayLen == 2          \* clock ticks per calendar day
MaxItems == 3        \* items in the collection a list request reads

\* ------------------------------------------------------ program constants
FileSizeLimit == 5 * 1024 * 1024

Reqs == 1..NReq
Times == 0..MaxTime
IpOrder == <<"1.2.3.4", "unknown">>
InvalidId == 0
None == -1

\* character codes: 32 is the space, 97 is "a"
NoName == <<0>>
Names == {NoName, <<32>>, <<32, 97, 32>>}

NoFile == [mimetype |-> <<>>, size |-> 0]
Files == {NoFile,
          [mimetype |-> <<"image", "/", "png">>, size |-> 1024],
          [mimetype |-> <<"image", "/", "png">>, size |-> FileSizeLimit + 1],
          [mimetype |-> <<"text", "/", "plain">>, size |-> 1024],
          [mimetype |-> <<"text", "/", "plain">>, size |-> FileSizeLimit + 1]}

\* the description field: absent, or a text (100 is "d")
NoDesc == <<0>>
Descriptions == {NoDesc, <<32, 100>>}

\* 63 stands for the placeholder text '暂无描述'
Placeholder == <<63>>

\* the sort query parameter: absent, the three keys, and another text
NoSort == "undefined"
Sorts == {NoSort, "votes", "newest", "name", "hot"}

\* the documents a collection read by a list request is made of
ListNames == {<<97>>, <<98>>, <<97, 98>>}
ListItems == [name : ListNames, description : {Placeholder},
              imageUrl : {<<"data:", "image", "/", "png", ";base64,", 1024>>},
              votes : 0..1, createdAt : 0..1, updatedAt : {1}]

VARIABLES
    now,        \* the server clock (new Date())
    db,         \* the global handle: 0 while unset, else the connection's number
    connCount,  \* connections established so far
    cps,        \* collection 'cps': id -> document
    voteLogs,   \* collection 'vote_logs', in insertion order
    req         \* per request slot: the handler's position and locals

vars == <<now, db, connCount, cps, voteLogs, req>>

\* ------------------------------------------------------------- functions
Day(t) == t \div DayLen

\* todayStart = new Date(); todayStart.setHours(0, 0, 0, 0)
TodayStart(t) == t - (t % DayLen)

\* ObjectId.isValid(cpId)
IsValid(id) == id # InvalidId

StartsWith(s, p) == Len(s) >= Len(p) /\ SubSeq(s, 1, Len(p)) = p

\* fileFilter: file.mimetype.startsWith('image/')
fileFilter(file) == StartsWith(file.mimetype, <<"image", "/">>)

RECURSIVE TrimLeft(_)
TrimLeft(s) == IF s # <<>> /\ Head(s) = 32 THEN TrimLeft(Tail(s)) ELSE s

RECURSIVE TrimRight(_)
TrimRight(s) ==
    IF s # <<>> /\ s[Len(s)] = 32 THEN TrimRight(SubSeq(s, 1, Len(s) - 1)) ELSE s

\* String.prototype.trim
Trim(s) == TrimRight(TrimLeft(s))

\* description || '暂无描述'
DescriptionOf(description) ==
    Trim(IF description = NoDesc \/ description = <<>> THEN Placeholder
         ELSE description)

\* `data:${imageFile.mimetype};base64,${imageBase64}`, the payload
\* represented by its size
ImageUrl(file) == <<"data:">> \o file.mimetype \o <<";base64,", file.size>>

\* variant: !name only
NameMissingNoTrim(name) == name = NoName \/ name = <<>>

\* !name || !name.trim()
NameMissing(name) == name = NoName \/ name = <<>> \/ Trim(name) = <<>>

\* variant: without the MulterError branch
ErrorMiddlewareGeneric(err) == [status |-> 500, msg |-> "internal error"]

\* the error-handling middleware: err is "LIMIT_FILE_SIZE" for that
\* MulterError, anything else for other errors
ErrorMiddleware(err) ==
    IF err = "LIMIT_FILE_SIZE"
    THEN [status |-> 400, msg |-> "file too large"]
    ELSE [status |-> 500, msg |-> "internal error"]

\* upload.single('image'): "ok", or the error handed to next(err)
upload(file) ==
    IF file = NoFile THEN "ok"
    ELSE IF ~fileFilter(file) THEN "only image files"
    ELSE IF file.size > FileSizeLimit THEN "LIMIT_FILE_SIZE"
    ELSE "ok"

\* variant: votedAt: { $gt: todayStart }
VoteMatchesStrict(log, cpId, voterIp, todayStart) ==
    /\ log.cpId = cpId
    /\ log.voterIp = voterIp
    /\ log.votedAt > todayStart

\* variant: no votedAt condition in the filter
VoteMatchesAnyDay(log, cpId, voterIp, todayStart) ==
    /\ log.cpId = cpId
    /\ log.voterIp = voterIp

\* the filter of voteLogCollection.findOne in the vote handler
VoteMatches(log, cpId, voterIp, todayStart) ==
    /\ log.cpId = cpId
    /\ log.voterIp = voterIp
    /\ log.votedAt >= todayStart

findOneVote(logs, cpId, voterIp, todayStart) ==
    \E i \in 1..Len(logs) : VoteMatches(logs[i], cpId, voterIp, todayStart)

\* variant: the increment applied twice
IncVotesTwice(v) == v + 2

\* variant: $inc: { votes: -1 }
IncVotesDown(v) == v - 1

\* variant: the increment dropped
IncVotesNone(v) == v

\* { $inc: { votes: 1 } }
IncVotes(v) == v + 1

\* variant: the update document written without the $inc/$set operators,
\* which replaces the stored document
updateOneReplace(coll, id, updatedAt) ==
    IF id \in DOMAIN coll
    THEN [coll EXCEPT ![id] = [name |-> <<>>, description |-> <<>>,
                               imageUrl |-> <<>>, votes |-> 1,
                               createdAt |-> updatedAt,
                               updatedAt |-> updatedAt]]
    ELSE coll

\* cpCollection.updateOne({ _id }, { $inc: { votes: 1 }, $set: { updatedAt } })
updateOne(coll, id, updatedAt) ==
    IF id \in DOMAIN coll
    THEN [coll EXCEPT ![id].votes = IncVotes(coll[id].votes),
                      ![id].updatedAt = updatedAt]
    ELSE coll

\* variant: the result of an upsert, which always reports a document
matchedCountUpsert(coll, id) == 1

\* updateResult.matchedCount
matchedCount(coll, id) == IF id \in DOMAIN coll THEN 1 ELSE 0

\* const { sort = 'votes' } = req.query
sortParam(query) == IF query = NoSort THEN "votes" ELSE query

\* variant: the default label placed on the first case
sortOptionDefaultNewest(sort) ==
    IF sort = "votes" THEN [field |-> "votes", dir |-> -1]
    ELSE IF sort = "name" THEN [field |-> "name", dir |-> 1]
    ELSE [field |-> "createdAt", dir |-> -1]

\* the switch that chooses sortOption
sortOption(sort) ==
    IF sort = "newest" THEN [field |-> "createdAt", dir |-> -1]
    ELSE IF sort = "name" THEN [field |-> "name", dir |-> 1]
    ELSE [field |-> "votes", dir |-> -1]

\* the order of two strings (sequences of character codes)
RECURSIVE LexLeq(_, _)
LexLeq(a, b) ==
    IF a = <<>> THEN TRUE
    ELSE IF b = <<>> THEN FALSE
    ELSE IF Head(a) # Head(b) THEN Head(a) < Head(b)
    ELSE LexLeq(Tail(a), Tail(b))

\* document x may stand before document y in a result sorted by option
Before(x, y, option) ==
    IF option.field = "name"
    THEN IF option.dir = 1 THEN LexLeq(x.name, y.name) ELSE LexLeq(y.name, x.name)
    ELSE IF option.dir = 1 THEN x[option.field] <= y[option.field]
         ELSE x[option.field] >= y[option.field]

\* the arrangements of all ids of a collection
Arrangements(coll) ==
    {seq \in [1..Cardinality(DOMAIN coll) -> DOMAIN coll] :
        \A i, j \in DOMAIN seq : seq[i] = seq[j] => i = j}

\* collection.find().sort(sortOption).toArray(): the results the store may
\* return (documents with equal keys come in an order the store chooses)
findSorted(coll, option) ==
    {seq \in Arrangements(coll) :
        \A i, j \in DOMAIN seq :
            i < j => Before(coll[seq[i]], coll[seq[j]], option)}

\* the message of an error a rejected driver call throws
StoreError == <<"MongoNetworkError", ":", "connection", "closed">>

Includes(message, part) == \E i \in 1..Len(message) : message[i] = part

\* the catch block of the create handler: error.message.includes('图片文件')
CatchCreate(message) ==
    IF Includes(message, "image file")
    THEN [status |-> 400, msg |-> "only image files"]
    ELSE [status |-> 500, msg |-> "create failed"]

\* variant: a catch block that logs and sends nothing
CatchVoteSilent == [status |-> 0, msg |-> ""]

\* the catch block of the vote handler
CatchVote == [status |-> 500, msg |-> "vote failed"]

\* variant: db = client.db() placed before the await of client.connect()
dbAssignedEarly(handle, fresh) == fresh

\* the global handle after client.connect() rejected: the assignment of
\* db is not reached
dbAfterThrow(handle, fresh) == handle

\* ---------------------------------------------------------------- state
Idle == [kind |-> "none", pc |-> "idle", createdAt |-> None, cpId |-> None,
         voterIp |-> "", name |-> NoName, description |-> NoDesc,
         file |-> NoFile,
         todayStart |-> None, database |-> 0, existingVote |-> FALSE,
         matchedCount |-> None, votedAt |-> None, afterInc |-> None,
         status |-> 0, msg |-> "", newVoteCount |-> None,
         insertedId |-> None, sort |-> "", result |-> <<>>]

Init ==
    /\ now = 0
    /\ db = 0
    /\ connCount = 0
    /\ cps = (1 :> [name |-> <<97>>, description |-> Placeholder,
                    imageUrl |-> ImageUrl([mimetype |-> <<"image", "/", "png">>,
                                           size |-> 1024]),
                    votes |-> 0, createdAt |-> 0, updatedAt |-> 0])
    /\ voteLogs = <<>>
    /\ req = [r \in Reqs |-> Idle]

\* ------------------------------------------------------------- actions
\* A step is one run of a handler between two awaits: it resumes with the
\* result of the call it awaited, runs to its next await, and the store
\* call it issues there takes effect; the result reaches it in a later step.

\* requests are numbered in their order of arrival
Arrived(k) == IF k \in Reqs THEN req[k].pc # "idle" ELSE TRUE

\* IPs are numbered in the order of their first use
KnownIps ==
    {IpOrder[k] : k \in {j \in 1..Len(IpOrder) :
         IF j = 1 THEN TRUE ELSE \E q \in Reqs : req[q].voterIp = IpOrder[j - 1]}}

\* the ids a vote may name: a malformed one, those of the stored items, and
\* a well-formed one that no item has
Targets == {InvalidId} \cup DOMAIN cps \cup {Cardinality(DOMAIN cps) + 1}

\* variant: the id of the item stored last is handed out again
NewIdReused == Cardinality(DOMAIN cps)

\* the id insertOne generates
NewId == Cardinality(DOMAIN cps) + 1

\* the clock advances
Tick ==
    /\ now < MaxTime
    /\ now' = now + 1
    /\ UNCHANGED <<db, connCount, cps, voteLogs, req>>

\* the vote handler from the handle to its await of
\* voteLogCollection.findOne: the record of the request after it
VoteCheck(rec, handle) ==
    [rec EXCEPT !.pc = "gotVote",
                !.database = handle,
                !.todayStart = TodayStart(now),
                !.existingVote = findOneVote(voteLogs, rec.cpId, rec.voterIp,
                                             TodayStart(now))]

\* the create handler from the handle to its await of collection.insertOne:
\* the record of the request after it, and the collection
CreateInsert(rec, handle) ==
    [rec EXCEPT !.pc = "gotInsertCp", !.database = handle,
                !.insertedId = NewId]

insertOneCp(coll, rec) ==
    coll @@ (NewId :> [name |-> Trim(rec.name),
                       description |-> DescriptionOf(rec.description),
                       imageUrl |-> ImageUrl(rec.file),
                       votes |-> 0,
                       createdAt |-> rec.createdAt,
                       updatedAt |-> rec.createdAt])

\* POST /api/cps/:id/vote arrives: id check, connectToDatabase and, with
\* the handle already there, the duplicate check
VoteArrive(r) ==
    /\ req[r].pc = "idle"
    /\ Arrived(r - 1)
    /\ \E id \in Targets, ip \in KnownIps :
          LET rec == [req[r] EXCEPT !.kind = "vote", !.cpId = id,
                                    !.voterIp = ip]
          IN req' = [req EXCEPT ![r] =
                IF ~IsValid(id)
                THEN [rec EXCEPT !.pc = "done", !.status = 400,
                                 !.msg = "invalid id format"]
                ELSE IF db # 0 THEN VoteCheck(rec, db)
                ELSE [rec EXCEPT !.pc = "connecting"]]
    /\ UNCHANGED <<now, db, connCount, cps, voteLogs>>

\* POST /api/cps arrives: upload middleware, field validation, newCP,
\* connectToDatabase and, with the handle already there, insertOne
CreateArrive(r) ==
    /\ req[r].pc = "idle"
    /\ Arrived(r - 1)
    /\ \E name \in Names, file \in Files, description \in Descriptions :
          LET rec == [req[r] EXCEPT !.kind = "create", !.name = name,
                                    !.file = file]
              fail(status, msg) ==
                  [rec EXCEPT !.pc = "done", !.status = status, !.msg = msg]
              newCP == [rec EXCEPT !.description = description,
                                   !.createdAt = now]
          IN IF upload(file) # "ok"
             THEN /\ req' = [req EXCEPT ![r] =
                               fail(ErrorMiddleware(upload(file)).status,
                                    ErrorMiddleware(upload(file)).msg)]
                  /\ cps' = cps
             ELSE IF NameMissing(name)
             THEN /\ req' = [req EXCEPT ![r] = fail(400, "name required")]
                  /\ cps' = cps
             ELSE IF file = NoFile
             THEN /\ req' = [req EXCEPT ![r] = fail(400, "image required")]
                  /\ cps' = cps
             ELSE IF db # 0
             THEN /\ req' = [req EXCEPT ![r] = CreateInsert(newCP, db)]
                  /\ cps' = insertOneCp(cps, newCP)
             ELSE /\ req' = [req EXCEPT ![r] = [newCP EXCEPT !.pc = "connecting"]]
                  /\ cps' = cps
    /\ UNCHANGED <<now, db, connCount, voteLogs>>

\* connectToDatabase resumes from client.connect(): db = client.db(), the
\* handle is returned and the caller runs to its next await
Connect(r) ==
    /\ req[r].pc = "connecting"
    /\ connCount' = connCount + 1
    /\ db' = connCount + 1
    /\ IF req[r].kind = "vote"
       THEN /\ req' = [req EXCEPT ![r] = VoteCheck(req[r], connCount + 1)]
            /\ cps' = cps
       ELSE /\ req' = [req EXCEPT ![r] = CreateInsert(req[r], connCount + 1)]
            /\ cps' = insertOneCp(cps, req[r])
    /\ UNCHANGED <<now, voteLogs>>

\* the vote handler resumes with existingVote: 400, or updateOne
VoteUpdate(r) ==
    /\ req[r].pc = "gotVote"
    /\ IF req[r].existingVote
       THEN /\ req' = [req EXCEPT ![r].pc = "done", ![r].status = 400,
                                  ![r].msg = "already voted today",
                                  ![r].database = 0]
            /\ cps' = cps
       ELSE /\ req' = [req EXCEPT ![r].pc = "gotUpdate",
                                  ![r].matchedCount =
                                      matchedCount(cps, req[r].cpId),
                                  ![r].afterInc =
                                      IF req[r].cpId \in DOMAIN cps
                                      THEN cps[req[r].cpId].votes + 1
                                      ELSE None]
            /\ cps' = updateOne(cps, req[r].cpId, now)
    /\ UNCHANGED <<now, db, connCount, voteLogs>>

\* the vote handler resumes with updateResult: 404, or the log insertOne
VoteLog(r) ==
    /\ req[r].pc = "gotUpdate"
    /\ IF req[r].matchedCount = 0
       THEN /\ req' = [req EXCEPT ![r].pc = "done", ![r].status = 404,
                                  ![r].msg = "not found", ![r].database = 0]
            /\ voteLogs' = voteLogs
       ELSE /\ req' = [req EXCEPT ![r].pc = "gotInsert", ![r].votedAt = now]
            /\ voteLogs' = Append(voteLogs, [cpId |-> req[r].cpId,
                                             voterIp |-> req[r].voterIp,
                                             votedAt |-> now])
    /\ UNCHANGED <<now, db, connCount, cps>>

\* the vote handler resumes from the log insertOne: cpCollection.findOne
\* (updatedCP is null when no document has the id)
VoteRead(r) ==
    /\ req[r].pc = "gotInsert"
    /\ req' = [req EXCEPT ![r].pc = "gotCp",
                          ![r].newVoteCount =
                              IF req[r].cpId \in DOMAIN cps
                              THEN cps[req[r].cpId].votes ELSE None]
    /\ UNCHANGED <<now, db, connCount, cps, voteLogs>>

\* the vote handler resumes with updatedCP and responds (reading votes off
\* a null updatedCP throws: 500)
VoteRespond(r) ==
    /\ req[r].pc = "gotCp"
    /\ IF req[r].newVoteCount # None
       THEN req' = [req EXCEPT ![r].pc = "done", ![r].status = 200,
                               ![r].msg = "vote ok", ![r].database = 0]
       ELSE req' = [req EXCEPT ![r].pc = "done", ![r].status = 500,
                               ![r].msg = "vote failed", ![r].database = 0]
    /\ UNCHANGED <<now, db, connCount, cps, voteLogs>>

\* the create handler resumes from insertOne and responds 201
CreateRespond(r) ==
    /\ req[r].pc = "gotInsertCp"
    /\ req' = [req EXCEPT ![r].pc = "done", ![r].status = 201,
                          ![r].msg = "created", ![r].database = 0]
    /\ UNCHANGED <<now, db, connCount, cps, voteLogs>>

\* GET /api/cps arrives: the sort parameter, connectToDatabase and, with the
\* handle already there, find().sort().toArray()
ListArrive(r) ==
    /\ req[r].pc = "idle"
    /\ Arrived(r - 1)
    /\ \E query \in Sorts :
          LET rec == [req[r] EXCEPT !.kind = "list", !.sort = query]
          IN IF db # 0
             THEN \E cpsList \in findSorted(cps, sortOption(sortParam(query))) :
                     req' = [req EXCEPT ![r] =
                               [rec EXCEPT !.pc = "gotList", !.database = db,
                                           !.result = cpsList]]
             ELSE req' = [req EXCEPT ![r] = [rec EXCEPT !.pc = "connecting"]]
    /\ UNCHANGED <<now, db, connCount, cps, voteLogs>>

\* connectToDatabase resumes from client.connect() in the list handler,
\* which runs to its await of toArray()
ListConnect(r) ==
    /\ req[r].pc = "connecting"
    /\ req[r].kind = "list"
    /\ connCount' = connCount + 1
    /\ db' = connCount + 1
    /\ \E cpsList \in findSorted(cps, sortOption(sortParam(req[r].sort))) :
          req' = [req EXCEPT ![r].pc = "gotList",
                             ![r].database = connCount + 1,
                             ![r].result = cpsList]
    /\ UNCHANGED <<now, cps, voteLogs>>

\* the list handler resumes with the array and responds
ListRespond(r) ==
    /\ req[r].pc = "gotList"
    /\ req' = [req EXCEPT ![r].pc = "done", ![r].status = 200,
                          ![r].msg = "list", ![r].database = 0,
                          ![r].sort = "", ![r].result = <<>>]
    /\ UNCHANGED <<now, db, connCount, cps, voteLogs>>

\* client.connect() rejects: connectToDatabase logs and rethrows, and the
\* catch block of the handler that awaited it responds
ConnectFail(r) ==
    /\ req[r].pc = "connecting"
    /\ db' = dbAfterThrow(db, connCount + 1)
    /\ req' = [req EXCEPT ![r].pc = "done",
                          ![r].status = IF req[r].kind = "vote"
                                        THEN CatchVote.status
                                        ELSE CatchCreate(StoreError).status,
                          ![r].msg = IF req[r].kind = "vote"
                                     THEN CatchVote.msg
                                     ELSE CatchCreate(StoreError).msg]
    /\ UNCHANGED <<now, connCount, cps, voteLogs>>

\* a store call of the vote handler rejects and its catch block responds:
\* the voteLogCollection.findOne it awaits, or the call it issues next
\* (updateOne, the log insertOne, cpCollection.findOne), which then has no
\* effect
VoteFail(r) ==
    /\ \/ req[r].pc = "gotVote"
       \/ req[r].pc = "gotUpdate" /\ req[r].matchedCount # 0
       \/ req[r].pc = "gotInsert"
    /\ req' = [req EXCEPT ![r].pc = "done", ![r].status = CatchVote.status,
                          ![r].msg = CatchVote.msg]
    /\ UNCHANGED <<now, db, connCount, cps, voteLogs>>

\* connectToDatabase resumes from client.connect() in the create handler,
\* whose collection.insertOne then rejects: nothing is stored and the catch
\* block responds
CreateInsertFail(r) ==
    /\ req[r].pc = "connecting"
    /\ req[r].kind = "create"
    /\ connCount' = connCount + 1
    /\ db' = connCount + 1
    /\ req' = [req EXCEPT ![r].pc = "done", ![r].database = connCount + 1,
                          ![r].status = CatchCreate(StoreError).status,
                          ![r].msg = CatchCreate(StoreError).msg]
    /\ UNCHANGED <<now, cps, voteLogs>>

\* POST /api/cps arrives with the handle already there and valid fields,
\* and collection.insertOne rejects
CreateArriveFail(r) ==
    /\ req[r].pc = "idle"
    /\ Arrived(r - 1)
    /\ db # 0
    /\ \E name \in Names, file \in Files, description \in Descriptions :
          /\ upload(file) = "ok"
          /\ ~NameMissing(name)
          /\ file # NoFile
          /\ req' = [req EXCEPT ![r] =
                [@ EXCEPT !.kind = "create", !.name = name, !.file = file,
                          !.description = description, !.createdAt = now,
                          !.database = db, !.pc = "done",
                          !.status = CatchCreate(StoreError).status,
                          !.msg = CatchCreate(StoreError).msg]]
    /\ UNCHANGED <<now, db, connCount, cps, voteLogs>>

Next ==
    \/ Tick
    \/ \E r \in Reqs : VoteArrive(r)
    \/ \E r \in Reqs : CreateArrive(r)
    \/ \E r \in Reqs : Connect(r)
    \/ \E r \in Reqs : VoteUpdate(r)
    \/ \E r \in Reqs : VoteLog(r)
    \/ \E r \in Reqs : VoteRead(r)
    \/ \E r \in Reqs : VoteRespond(r)
    \/ \E r \in Reqs : CreateRespond(r)

Spec == Init /\ [][Next]_vars

\* the create requests alone (they share no document with a vote)
NextCreate ==
    \/ Tick
    \/ \E r \in Reqs : CreateArrive(r)
    \/ \E r \in Reqs : Connect(r)
    \/ \E r \in Reqs : CreateRespond(r)

SpecCreate == Init /\ [][NextCreate]_vars

\* the list requests alone, on a collection of MaxItems documents
InitList ==
    /\ now = 1
    /\ db = 0
    /\ connCount = 0
    /\ cps \in [1..MaxItems -> ListItems]
    /\ voteLogs = <<>>
    /\ req = [r \in Reqs |-> Idle]

NextList ==
    \/ \E r \in Reqs : ListArrive(r)
    \/ \E r \in Reqs : ListConnect(r)
    \/ \E r \in Reqs : ListRespond(r)

SpecList == InitList /\ [][NextList]_vars

\* the service with a store that may reject any call
NextFail ==
    \/ Next
    \/ \E r \in Reqs : ConnectFail(r)
    \/ \E r \in Reqs : VoteFail(r)
    \/ \E r \in Reqs : CreateInsertFail(r)
    \/ \E r \in Reqs : CreateArriveFail(r)

SpecFail == Init /\ [][NextFail]_vars

\* a handler resumes from an await: every call it awaits settles, resolved
\* or rejected, and the event loop then runs the continuation
Resume(r) ==
    \/ Connect(r)
    \/ ConnectFail(r)
    \/ CreateInsertFail(r)
    \/ VoteUpdate(r)
    \/ VoteLog(r)
    \/ VoteRead(r)
    \/ VoteRespond(r)
    \/ VoteFail(r)
    \/ CreateRespond(r)

SpecFailFair == SpecFail /\ \A r \in Reqs : WF_vars(Resume(r))

TypeOK ==
    /\ now \in Times
    /\ db \in 0..NReq
    /\ connCount \in 0..NReq
    /\ \A r \in Reqs : req[r].pc \in {"idle", "connecting", "gotVote",
           "gotUpdate", "gotInsert", "gotCp", "gotInsertCp", "gotList",
           "done"}

\* ---------------------------------------------------------- vocabulary
IsVote(r) == req[r].kind = "vote"
IsCreate(r) == req[r].kind = "create"

\* a and b are votes of the same IP for the same item
SameKey(a, b) ==
    /\ IsVote(a) /\ IsVote(b)
    /\ req[a].cpId = req[b].cpId
    /\ req[a].voterIp = req[b].voterIp

\* the vote request r was answered 200
Succeeded(r) == IsVote(r) /\ req[r].pc = "done" /\ req[r].status = 200

\* the vote request r was answered 400 "already voted today"
RejectedDuplicate(r) ==
    IsVote(r) /\ req[r].pc = "done" /\ req[r].existingVote /\ req[r].status = 400

\* positions of the VoteLogs of (cpId, voterIp) stamped on the given day
LogsOn(logs, cpId, voterIp, day) ==
    {i \in 1..Len(logs) : /\ logs[i].cpId = cpId
                          /\ logs[i].voterIp = voterIp
                          /\ Day(logs[i].votedAt) = day}

\* the vote requests whose updateOne matched item id
Updaters(id) ==
    {r \in Reqs : IsVote(r) /\ req[r].cpId = id /\ req[r].matchedCount = 1}

\* this step is request r leaving position p
Leaves(r, p) == req[r].pc = p /\ req'[r].pc # p

\* this step evaluates the duplicate check of vote request r
Checks(r) == req[r].pc # "gotVote" /\ req'[r].pc = "gotVote"

\* ------------------------------------------------------------------ C1
\* C1: in every reachable state, for each (itemId, voterIp) pair at most
\* one VoteLog has its votedAt within any one calendar day.
C1_OneLogPerDay ==
    \A i, j \in 1..Len(voteLogs) :
        (/\ voteLogs[i].cpId = voteLogs[j].cpId
         /\ voteLogs[i].voterIp = voteLogs[j].voterIp
         /\ Day(voteLogs[i].votedAt) = Day(voteLogs[j].votedAt)) => i = j

\* ------------------------------------------------------------------ C2
\* C2: once a vote of an IP for an item has been answered 200, a later
\* vote request of the same IP for the same item whose duplicate check runs
\* on the calendar day of that vote is answered 400 "already voted today",
\* and the rejection changes neither the items nor the VoteLogs.
C2_DuplicateRejected ==
    [][\A b \in Reqs :
          /\ (/\ Checks(b)
              /\ \E a \in Reqs \ {b} : /\ Succeeded(a)
                                       /\ SameKey(a, b)'
                                       /\ Day(req[a].votedAt) = Day(now))
             => /\ req'[b].existingVote
                /\ cps' = cps
                /\ voteLogs' = voteLogs
          /\ (Leaves(b, "gotVote") /\ req[b].existingVote)
             => /\ req'[b].pc = "done"
                /\ req'[b].status = 400
                /\ req'[b].msg = "already voted today"
                /\ cps' = cps
                /\ voteLogs' = voteLogs]_vars

C2_Witness ==
    \E a, b \in Reqs : /\ a # b
                       /\ Succeeded(a)
                       /\ RejectedDuplicate(b)
                       /\ SameKey(a, b)
                       /\ Day(req[a].votedAt) = Day(now)
                       /\ req[a].votedAt = req[b].todayStart

\* ------------------------------------------------------------------ C3
\* C3: the updateOne of a vote request on an existing item raises that
\* item's votes by exactly 1 and sets updatedAt to the time the handler
\* took; whatever the interleaving, an item's votes equal its initial votes
\* plus the number of requests whose update matched it.
C3_VotesCountUpdates ==
    [][/\ \A id \in DOMAIN cps' :
             cps'[id].votes = Cardinality(Updaters(id)')
       /\ \A r \in Reqs :
             (/\ Leaves(r, "gotVote")
              /\ ~req[r].existingVote
              /\ req[r].cpId \in DOMAIN cps)
             => /\ cps'[req[r].cpId].votes = cps[req[r].cpId].votes + 1
                /\ cps'[req[r].cpId].updatedAt = now
                /\ \A id \in DOMAIN cps \ {req[r].cpId} : cps'[id] = cps[id]]_vars

C3_Witness ==
    \E a, b \in Reqs :
        /\ a # b
        /\ Succeeded(a) /\ Succeeded(b)
        /\ req[a].cpId = req[b].cpId
        /\ req[a].voterIp # req[b].voterIp
        /\ cps[req[a].cpId].votes = 2

\* ------------------------------------------------------------------ C4
\* C4 as stated: the newVoteCount of a successful vote equals the value the
\* item's votes had immediately after this request's own increment.
C4_Original ==
    \A r \in Reqs : Succeeded(r) => req[r].newVoteCount = req[r].afterInc

\* C4 amended: the newVoteCount of a successful vote is the item's votes as
\* read after the request's log write: at least the value immediately after
\* its own increment and at most the item's current votes.
C4_CountAtLeastOwn ==
    \A r \in Reqs :
        Succeeded(r) => /\ req[r].newVoteCount >= req[r].afterInc
                        /\ req[r].newVoteCount <= cps[req[r].cpId].votes
                        /\ req[r].afterInc >= 1

C4_Witness ==
    \E r \in Reqs : Succeeded(r) /\ req[r].newVoteCount > req[r].afterInc

\* ------------------------------------------------------------------ C5
\* C5: a vote whose well-formed id matches no item at its update is
\* answered 404, changes no item and appends no VoteLog; every VoteLog's
\* cpId is the id of an existing item.
C5_NotFound ==
    [][/\ \A r \in Reqs :
             /\ (/\ Leaves(r, "gotVote")
                 /\ ~req[r].existingVote
                 /\ req[r].cpId \notin DOMAIN cps)
                => /\ req'[r].pc = "gotUpdate"
                   /\ req'[r].matchedCount = 0
                   /\ cps' = cps
                   /\ voteLogs' = voteLogs
             /\ (Leaves(r, "gotUpdate") /\ req[r].matchedCount = 0)
                => /\ req'[r].pc = "done"
                   /\ req'[r].status = 404
                   /\ cps' = cps
                   /\ voteLogs' = voteLogs
       /\ \A i \in 1..Len(voteLogs') : voteLogs'[i].cpId \in DOMAIN cps'
       /\ \A r \in Reqs :
             (req[r].pc = "done" /\ req[r].status = 404) => req'[r] = req[r]]_vars

C5_Witness ==
    \E r \in Reqs : /\ IsVote(r)
                    /\ req[r].pc = "done"
                    /\ req[r].status = 404
                    /\ IsValid(req[r].cpId)
                    /\ req[r].cpId \notin DOMAIN cps
                    /\ Len(voteLogs) > 0

\* ------------------------------------------------------------------ C6
\* C6: a create request whose uploaded file has a MIME type that does not
\* start with image/ is answered 400 with the type-specific message, and no
\* item is written.
C6_NonImageRejected400 ==
    \A r \in Reqs :
        (/\ IsCreate(r)
         /\ req[r].file # NoFile
         /\ ~StartsWith(req[r].file.mimetype, <<"image", "/">>))
        => /\ req[r].pc = "done"
           /\ req[r].status = 400
           /\ req[r].msg = "only image files"
           /\ req[r].insertedId = None

\* ------------------------------------------------------------------ C7
\* C7: over the whole run at most one connection is ever established and
\* every connectToDatabase call returns that same handle.
C7_SingleConnection ==
    /\ connCount <= 1
    /\ \A r \in Reqs : req[r].database # 0 => req[r].database = 1

\* ------------------------------------------------------------------ C8
\* the day vote request r was made: the day it computed todayStart on
MadeOn(r) == Day(req[r].todayStart)

\* C8 as stated: a vote request for an existing item succeeds whenever
\* every earlier vote request of the same IP for that item was made on an
\* earlier calendar day, also when an earlier request's handling spans
\* midnight. Requests are numbered in arrival order; the case checked is
\* the one where every other request of that IP for the item is an earlier
\* one.
C8_Original ==
    \A b \in Reqs :
        (/\ IsVote(b)
         /\ req[b].pc = "done"
         /\ req[b].cpId \in DOMAIN cps
         /\ req[b].status # 404
         /\ \A a \in Reqs \ {b} :
               SameKey(a, b) => /\ a < b
                                /\ req[a].todayStart # None
                                /\ MadeOn(a) < MadeOn(b))
        => req[b].status = 200

\* C8 amended: a vote request passes the duplicate check whenever every
\* VoteLog of its IP and item present at the check has votedAt on a
\* calendar day earlier than the day the request computed todayStart on,
\* and a request that passed the check and whose update matched an item is
\* answered 200. The log of an earlier request whose handling spans
\* midnight is stamped on the new day and does block.
C8_NewDayVotePasses ==
    [][\A b \in Reqs :
          /\ (/\ Checks(b)
              /\ \A i \in 1..Len(voteLogs) :
                    (/\ voteLogs[i].cpId = req'[b].cpId
                     /\ voteLogs[i].voterIp = req'[b].voterIp)
                    => Day(voteLogs[i].votedAt) < MadeOn(b)')
             => ~req'[b].existingVote
          /\ (Leaves(b, "gotVote") /\ ~req[b].existingVote)
             => req'[b].pc = "gotUpdate"
          /\ (/\ IsVote(b)
              /\ req'[b].pc = "done"
              /\ req'[b].matchedCount = 1)
             => req'[b].status = 200]_vars

C8_Witness ==
    \E a, b \in Reqs :
        /\ a # b
        /\ Succeeded(a) /\ Succeeded(b)
        /\ SameKey(a, b)
        /\ Day(req[a].votedAt) < MadeOn(b)
        /\ Len(voteLogs) = 2

\* ------------------------------------------------------------------ C9
\* C9: when two vote requests of the same IP for the same item both pass
\* the duplicate check and stamp their logs on the same day, both are
\* answered 200, the item's votes rise by 2 and two VoteLogs exist for that
\* (item, IP, day); C9_Witness is the state this interleaving ends in.
C9_RaceOutcome ==
    \A a, b \in Reqs :
        (/\ a # b
         /\ SameKey(a, b)
         /\ req[a].pc = "done" /\ req[b].pc = "done"
         /\ req[a].matchedCount = 1 /\ req[b].matchedCount = 1
         /\ Day(req[a].votedAt) = Day(req[b].votedAt))
        => /\ req[a].status = 200 /\ req[b].status = 200
           /\ cps[req[a].cpId].votes >= 2
           /\ Cardinality(LogsOn(voteLogs, req[a].cpId, req[a].voterIp,
                                 Day(req[a].votedAt))) >= 2

C9_Witness ==
    \E a, b \in Reqs :
        /\ a # b
        /\ SameKey(a, b)
        /\ Succeeded(a) /\ Succeeded(b)
        /\ Day(req[a].votedAt) = Day(req[b].votedAt)
        /\ Day(req[a].todayStart) = Day(req[a].votedAt)
        /\ Day(req[b].todayStart) = Day(req[b].votedAt)
        /\ cps[req[a].cpId].votes = 2
        /\ Cardinality(LogsOn(voteLogs, req[a].cpId, req[a].voterIp,
                              Day(req[a].votedAt))) = 2

\* ----------------------------------------------------------------- C10
\* the name field is absent or consists of spaces only
BlankName(name) == name = NoName \/ \A i \in 1..Len(name) : name[i] = 32

\* the upload middleware lets the file through: none, or an image within
\* the size limit
UploadAccepts(file) ==
    \/ file = NoFile
    \/ /\ StartsWith(file.mimetype, <<"image", "/">>)
       /\ file.size <= FileSizeLimit

\* the create request r was answered 400 with msg before any store call
RejectedCreate(r, msg) ==
    /\ req[r].pc = "done"
    /\ req[r].status = 400
    /\ req[r].msg = msg
    /\ req[r].insertedId = None
    /\ req[r].database = 0
    /\ req[r].createdAt = None

\* C10 as stated: a create request with a missing or blank name is answered
\* 400 "name required", and otherwise one without a file is answered 400
\* "image required"; no item is inserted and no store call is made.
C10_Original ==
    \A r \in Reqs :
        IsCreate(r) =>
           /\ BlankName(req[r].name) => RejectedCreate(r, "name required")
           /\ (~BlankName(req[r].name) /\ req[r].file = NoFile)
              => RejectedCreate(r, "image required")

\* C10 amended: the same, for a create request whose upload the upload
\* middleware accepted (no file, or an image within the size limit).
C10_ValidationRejects ==
    \A r \in Reqs :
        (IsCreate(r) /\ UploadAccepts(req[r].file)) =>
           /\ BlankName(req[r].name) => RejectedCreate(r, "name required")
           /\ (~BlankName(req[r].name) /\ req[r].file = NoFile)
              => RejectedCreate(r, "image required")

C10_Witness ==
    \E r, q \in Reqs :
        /\ IsCreate(r) /\ IsCreate(q)
        /\ req[r].name = <<32>>
        /\ req[r].file # NoFile
        /\ RejectedCreate(r, "name required")
        /\ ~BlankName(req[q].name)
        /\ req[q].file = NoFile
        /\ RejectedCreate(q, "image required")
\* ----------------------------------------------------------------- C11
\* the create request r carries a non-blank name and an image the upload
\* middleware accepts
ValidCreate(r) ==
    /\ IsCreate(r)
    /\ ~BlankName(req[r].name)
    /\ req[r].file # NoFile
    /\ UploadAccepts(req[r].file)

\* this step is the insertOne of create request r taking effect
Inserts(r) == req[r].pc # "gotInsertCp" /\ req'[r].pc = "gotInsertCp"

\* C11: the insertOne of a valid create adds exactly one item, with votes 0,
\* the trimmed name and a generated id no other item has, and leaves every
\* existing item and the VoteLogs unchanged; the create is answered 201 with
\* that id; concurrent creates get different ids.
C11_ValidCreateAddsOne ==
    [][/\ \A r \in Reqs :
             /\ Inserts(r)
                => /\ ValidCreate(r)'
                   /\ req'[r].insertedId \notin DOMAIN cps
                   /\ DOMAIN cps' = DOMAIN cps \cup {req'[r].insertedId}
                   /\ cps'[req'[r].insertedId].votes = 0
                   /\ cps'[req'[r].insertedId].name = Trim(req'[r].name)
                   /\ cps'[req'[r].insertedId].createdAt = req'[r].createdAt
                   /\ \A id \in DOMAIN cps : cps'[id] = cps[id]
                   /\ voteLogs' = voteLogs
             /\ Leaves(r, "gotInsertCp")
                => /\ req'[r].pc = "done"
                   /\ req'[r].status = 201
                   /\ req'[r].insertedId = req[r].insertedId
                   /\ req[r].insertedId \in DOMAIN cps
                   /\ cps' = cps
                   /\ voteLogs' = voteLogs
             /\ (ValidCreate(r)' /\ req'[r].pc = "done")
                => /\ req'[r].status = 201
                   /\ cps'[req'[r].insertedId].name = Trim(req'[r].name)
       /\ \A a, b \in Reqs :
             (/\ a # b
              /\ req'[a].insertedId # None
              /\ req'[b].insertedId # None)
             => req'[a].insertedId # req'[b].insertedId]_vars

C11_Witness ==
    \E a, b \in Reqs :
        /\ a # b
        /\ ValidCreate(a) /\ ValidCreate(b)
        /\ req[a].pc = "done" /\ req[a].status = 201
        /\ req[b].pc = "done" /\ req[b].status = 201
        /\ req[a].insertedId # req[b].insertedId
        /\ connCount = 2
        /\ Cardinality(DOMAIN cps) = 3
        /\ \A id \in {req[a].insertedId, req[b].insertedId} : cps[id].votes = 0
\* ----------------------------------------------------------------- C12
\* the create request r was answered by the error middleware with the
\* size-specific 400, the handler body not having run
RejectedTooLarge(r) ==
    /\ req[r].pc = "done"
    /\ req[r].status = 400
    /\ req[r].msg = "file too large"
    /\ req[r].createdAt = None
    /\ req[r].database = 0
    /\ req[r].insertedId = None

\* C12 as stated: a create request whose uploaded payload exceeds 5 MiB is
\* answered 400 with the size-specific message, the handler body never runs
\* and no item is written.
C12_Original ==
    \A r \in Reqs :
        (IsCreate(r) /\ req[r].file.size > FileSizeLimit) => RejectedTooLarge(r)

\* C12 amended: the same, for an uploaded file whose MIME type starts with
\* image/ (the type filter runs first and its rejection is answered
\* otherwise).
C12_OversizedImageRejected ==
    \A r \in Reqs :
        (/\ IsCreate(r)
         /\ StartsWith(req[r].file.mimetype, <<"image", "/">>)
         /\ req[r].file.size > FileSizeLimit)
        => /\ RejectedTooLarge(r)
           /\ \A id \in DOMAIN cps :
                 cps[id].imageUrl # ImageUrl(req[r].file)

C12_Witness ==
    \E r \in Reqs :
        /\ IsCreate(r)
        /\ StartsWith(req[r].file.mimetype, <<"image", "/">>)
        /\ req[r].file.size = FileSizeLimit + 1
        /\ ~BlankName(req[r].name)
        /\ RejectedTooLarge(r)
\* ----------------------------------------------------------------- C13
\* this step is request r resuming from a rejected client.connect(): it
\* leaves "connecting" with its local database never bound
ConnectFailed(r) ==
    /\ req[r].pc = "connecting"
    /\ req'[r].pc = "done"
    /\ req'[r].database = 0

\* the request r was answered 500 after its connectToDatabase call threw
FailedToConnect(r) ==
    /\ req[r].pc = "done"
    /\ req[r].status = 500
    /\ req[r].database = 0
    /\ req[r].kind \in {"vote", "create"}

C14_Frame ==
    [][/\ \A id \in DOMAIN cps :
             /\ id \in DOMAIN cps'
             /\ cps'[id].name = cps[id].name
             /\ cps'[id].description = cps[id].description
             /\ cps'[id].imageUrl = cps[id].imageUrl
             /\ cps'[id].createdAt = cps[id].createdAt
             /\ cps'[id] # cps[id]
                => \E r \in Reqs : /\ IsVote(r)
                                   /\ req[r].cpId = id
                                   /\ Leaves(r, "gotVote")
                                   /\ req'[r].matchedCount = 1
       /\ DOMAIN cps' # DOMAIN cps => \E r \in Reqs : Inserts(r)
       /\ Len(voteLogs') \in {Len(voteLogs), Len(voteLogs) + 1}
       /\ SubSeq(voteLogs', 1, Len(voteLogs)) = voteLogs
       /\ voteLogs' # voteLogs
          => \E r \in Reqs : /\ IsVote(r)
                             /\ Leaves(r, "gotUpdate")
                             /\ voteLogs'[Len(voteLogs')].cpId = req[r].cpId]_vars

C14_Witness ==
    /\ Cardinality(DOMAIN cps) = 2
    /\ Len(voteLogs) = 1
    /\ cps[1].votes = 1
    /\ cps[1].name = <<97>>
    /\ cps[1].createdAt = 0
    /\ cps[1].updatedAt > 0
\* ----------------------------------------------------------------- C15
\* the statuses the handlers and the error middleware answer with
Statuses == {200, 201, 400, 404, 500}

\* the request r has its response
Answered(r) == req[r].pc = "done" /\ req[r].status \in Statuses

\* C15: every request that has arrived is eventually answered, whichever
\* of its store calls rejects; it is answered once (an answered request
\* takes no further step) and a step that ends a request sets its status;
\* a request that has not yet arrived can always arrive, whatever failed
\* before.
C15_EveryRequestAnswered ==
    /\ \A r \in Reqs : (req[r].pc # "idle") ~> Answered(r)
    /\ [][\A r \in Reqs :
             /\ req[r].pc = "done" => req'[r] = req[r]
             /\ (req[r].pc # "done" /\ req'[r].pc = "done") => Answered(r)']_vars
    /\ [](\A r \in Reqs :
             (req[r].pc = "idle" /\ Arrived(r - 1))
             => ENABLED (VoteArrive(r) \/ CreateArrive(r)))

C15_Witness ==
    \E a, b \in Reqs :
        /\ a < b
        /\ IsVote(a)
        /\ Answered(a)
        /\ req[a].status = 500
        /\ req[a].matchedCount = 1
        /\ req[a].votedAt = None
        /\ Answered(b)
        /\ req[b].status = 200
\* ----------------------------------------------------------------- C16
\* C16: every item's votes is an integer >= 0 in every state, and no step
\* lowers the votes of an item.
C16_VotesMonotone ==
    [][/\ \A id \in DOMAIN cps : cps[id].votes \in Nat
       /\ \A id \in DOMAIN cps' : cps'[id].votes \in Nat
       /\ \A id \in DOMAIN cps \cap DOMAIN cps' :
             cps'[id].votes >= cps[id].votes]_vars

C16_Witness ==
    \E id \in DOMAIN cps :
        /\ cps[id].votes = 2
        /\ cps[id].updatedAt = MaxTime
        /\ Len(voteLogs) = 1
\* ----------------------------------------------------------------- C17
\* the array lists every item of the collection exactly once
ListsAll(result, coll) ==
    /\ Len(result) = Cardinality(DOMAIN coll)
    /\ \A id \in DOMAIN coll : \E i \in DOMAIN result : result[i] = id
    /\ \A i, j \in DOMAIN result : result[i] = result[j] => i = j

VotesDescending(result, coll) ==
    \A i, j \in DOMAIN result :
        i < j => coll[result[i]].votes >= coll[result[j]].votes

NewestFirst(result, coll) ==
    \A i, j \in DOMAIN result :
        i < j => coll[result[i]].createdAt >= coll[result[j]].createdAt

NameAscending(result, coll) ==
    \A i, j \in DOMAIN result :
        i < j => LexLeq(coll[result[i]].name, coll[result[j]].name)

\* C17: the array a list request is about to answer with holds every item
\* exactly once, ordered by votes descending for sort=votes, by createdAt
\* descending for sort=newest, by name ascending for sort=name and by votes
\* descending for an absent or any other sort key; no step of a list
\* request changes the items, the VoteLogs or the clock.
C17_ListOrdered ==
    [][/\ \A r \in Reqs :
             (req'[r].kind = "list" /\ req'[r].pc = "gotList")
             => /\ ListsAll(req'[r].result, cps')
                /\ req'[r].sort = "newest"
                   => NewestFirst(req'[r].result, cps')
                /\ req'[r].sort = "name"
                   => NameAscending(req'[r].result, cps')
                /\ req'[r].sort \notin {"newest", "name"}
                   => VotesDescending(req'[r].result, cps')
       /\ \A r \in Reqs :
             (req[r].kind = "list" /\ Leaves(r, "gotList"))
             => req'[r].pc = "done" /\ req'[r].status = 200
       /\ cps' = cps
       /\ voteLogs' = voteLogs
       /\ now' = now]_vars

C17_Witness ==
    \E a, b \in Reqs :
        /\ req[a].kind = "list" /\ req[a].pc = "gotList"
        /\ req[a].sort = "hot"
        /\ cps[req[a].result[1]].votes > cps[req[a].result[MaxItems]].votes
        /\ req[b].kind = "list" /\ req[b].pc = "gotList"
        /\ req[b].sort = "name"
        /\ req[b].result # req[a].result
        /\ cps[req[b].result[1]].name # cps[req[b].result[2]].name
        /\ cps[req[b].result[2]].name # cps[req[b].result[MaxItems]].name
\* ----------------------------------------------------------------- C18
\* the vote request r was answered with an error status
AnsweredError(r) ==
    IsVote(r) /\ req[r].pc = "done" /\ req[r].status \in {400, 404, 500}

\* C18: a vote request answered 400, 404 or 500, any of its store calls
\* being free to reject, has raised no item's votes (its updateOne matched
\* nothing or was not applied) and has appended no VoteLog.
C18_ErrorVoteChangedNothing ==
    \A r \in Reqs :
        AnsweredError(r) => /\ req[r].matchedCount # 1
                            /\ req[r].votedAt = None

\* ----------------------------------------------------------------- C19
\* the VoteLogs that reference item id
LogsOf(id) == {i \in 1..Len(voteLogs) : voteLogs[i].cpId = id}

\* a vote request is between its arrival and its response
VoteInFlight == \E r \in Reqs : IsVote(r) /\ req[r].pc \notin {"idle", "done"}

\* C19: for every item the number of VoteLogs referencing it is at most
\* its votes, and the two are equal in every state where no vote request
\* is in flight.
C19_LogsMatchVotes ==
    \A id \in DOMAIN cps :
        /\ Cardinality(LogsOf(id)) <= cps[id].votes
        /\ ~VoteInFlight => Cardinality(LogsOf(id)) = cps[id].votes
====
